---- MODULE Spec2Model ----
(***************************************************************************)
(* Model of the MCP9902 sensor driver (drivers/hwmon/mcp9902.c) and of the *)
(* DSA master sysfs endpoints (net/dsa/master.c): the shared I2C3/SPI2     *)
(* clock mutex, the per-device register cache and the tag protocol switch. *)
(***************************************************************************)
EXTENDS Integers, Sequences, FiniteSets, TLC

(* ------------------------------ bounds -------------------------------- *)
NumThreads == 2
NumDevices == 1
MaxJiffies == 2
MaxBusErrors == 1
MaxCalls == 3
NumMasterStats == 2
NumPhyStats == 1
NumSwitchStats == 2

Threads == 1..NumThreads
Devices == 1..NumDevices
NoThread == 0

(* ------------------------- program constants -------------------------- *)
NumBursts == 20
t_input1 == 0
t_input1_fraction == 1
t_input2 == 2
t_input2_fraction == 3
t_low1 == 4
t_high1 == 5
t_crit1 == 6
t_low2 == 7
t_high2 == 8
t_crit2 == 9
t_hyst == 10
t_num_regs == 11
MAN_ID == 93
CHIP_ID == 4
CONVRATE_2HZ == 5
CONFIG_RUN == 159
EIO == 5
EINVAL == 22
ENODEV == 19
ENOMEM == 12
EBUSY == 16
ENOPROTOOPT == 92
EOPNOTSUPP == 95
ETH_GSTRING_LEN == 32
PfxLen == 4

(* register addresses of the chip *)
MCP9902_REG_R_CHIP_ID == 253
MCP9902_REG_R_MAN_ID == 254
MCP9902_REG_R_CONFIG == 3
MCP9902_REG_W_CONFIG == 9
MCP9902_REG_R_CONVRATE == 4
MCP9902_REG_W_CONVRATE == 10
MCP9902_REG_R_STATUS == 2
MCP9902_REG_R_LOCAL_TEMP == 0
MCP9902_REG_R_LOCAL_TEMP_FRACTION == 41
MCP9902_REG_R_REMOTE_TEMP == 1
MCP9902_REG_R_REMOTE_TEMP_FRACTION == 16
MCP9902_REG_R_LOCAL_HIGH == 5
MCP9902_REG_W_LOCAL_HIGH == 11
MCP9902_REG_R_LOCAL_LOW == 6
MCP9902_REG_W_LOCAL_LOW == 12
MCP9902_REG_R_REMOTE_HIGH == 7
MCP9902_REG_W_REMOTE_HIGH == 13
MCP9902_REG_R_REMOTE_LOW == 8
MCP9902_REG_W_REMOTE_LOW == 14
MCP9902_REG_R_REMOTE_CRIT == 25
MCP9902_REG_R_LOCAL_CRIT == 32
MCP9902_REG_R_TCRIT_HYST == 33

TempRegs == 0..(t_num_regs - 1)

regs_read == [x \in TempRegs |->
    CASE x = t_input1 -> MCP9902_REG_R_LOCAL_TEMP
      [] x = t_input1_fraction -> MCP9902_REG_R_LOCAL_TEMP_FRACTION
      [] x = t_input2 -> MCP9902_REG_R_REMOTE_TEMP
      [] x = t_input2_fraction -> MCP9902_REG_R_REMOTE_TEMP_FRACTION
      [] x = t_low1 -> MCP9902_REG_R_LOCAL_LOW
      [] x = t_high1 -> MCP9902_REG_R_LOCAL_HIGH
      [] x = t_crit1 -> MCP9902_REG_R_LOCAL_CRIT
      [] x = t_low2 -> MCP9902_REG_R_REMOTE_LOW
      [] x = t_high2 -> MCP9902_REG_R_REMOTE_HIGH
      [] x = t_crit2 -> MCP9902_REG_R_REMOTE_CRIT
      [] OTHER -> MCP9902_REG_R_TCRIT_HYST]

\* the input registers have no write address: the C array holds 0 for them
regs_write == [x \in TempRegs |->
    CASE x = t_low1 -> MCP9902_REG_W_LOCAL_LOW
      [] x = t_high1 -> MCP9902_REG_W_LOCAL_HIGH
      [] x = t_crit1 -> MCP9902_REG_R_LOCAL_CRIT
      [] x = t_low2 -> MCP9902_REG_W_REMOTE_LOW
      [] x = t_high2 -> MCP9902_REG_W_REMOTE_HIGH
      [] x = t_crit2 -> MCP9902_REG_R_REMOTE_CRIT
      [] x = t_hyst -> MCP9902_REG_R_TCRIT_HYST
      [] OTHER -> 0]

\* the chip's registers the driver reads, named by their read address
HwRegs == {regs_read[x] : x \in TempRegs} \cup
          {MCP9902_REG_R_STATUS, MCP9902_REG_R_MAN_ID, MCP9902_REG_R_CHIP_ID}

\* the register a write address selects (limits, configuration and rate
\* are written at an address different from the one they are read at)
HwWriteTarget(a) ==
    CASE a = MCP9902_REG_W_LOCAL_HIGH -> MCP9902_REG_R_LOCAL_HIGH
      [] a = MCP9902_REG_W_LOCAL_LOW -> MCP9902_REG_R_LOCAL_LOW
      [] a = MCP9902_REG_W_REMOTE_HIGH -> MCP9902_REG_R_REMOTE_HIGH
      [] a = MCP9902_REG_W_REMOTE_LOW -> MCP9902_REG_R_REMOTE_LOW
      [] a = MCP9902_REG_W_CONFIG -> MCP9902_REG_R_CONFIG
      [] a = MCP9902_REG_W_CONVRATE -> MCP9902_REG_R_CONVRATE
      [] OTHER -> a

(* inputs of the sysfs handlers *)
ShowIdx == {t_input1, t_high1}
StoreIdx == {t_high1}
StoreBufs == {[ok |-> TRUE, val |-> 25000, count |-> 6], [ok |-> FALSE, val |-> 0, count |-> 4]}
AlarmBits == {0, 6}
MutexBufs == {[count |-> 2, parsed |-> 1, val |-> 1], [count |-> 2, parsed |-> 1, val |-> 0],
              [count |-> 2, parsed |-> 1, val |-> 2], [count |-> 2, parsed |-> 0, val |-> 0],
              [count |-> 3, parsed |-> 1, val |-> 1]}

VARIABLES
    datum_b53_spi_mutex,          \* owner of the clock mutex, NoThread when free
    datum_spi2_i2c3_clock_short,  \* the clock-short flag
    clientForced,                 \* some bus client has called the force release (history)
    bus,                          \* threads with a bus transaction in flight
    faultBudget,                  \* bus transactions that may still fail
    jiffies,
    hwreg,                        \* the chip's register file, per device
    data,                         \* struct mcp9902_data, per device
    age,                          \* per device and cache entry: 0 when the latest burst
                                  \* stored it, 1 when an earlier one did (history)
    th,                           \* per thread: position, handler, arguments and locals
    ret,                          \* per thread: what its last handler returned
    tag_ops,                      \* cpu_dp->tag_ops, the tagger the switch tree uses
    refcount,                     \* per tagger: references held on its driver
    tg,                           \* per thread: position and locals inside tagging_cpu_store
    calls,                        \* tagging_cpu_store calls made so far
    cv,                           \* a threshold on its way through temp_store and temp_show
    cfg,                          \* the switch tree and the capabilities of master and switch
    swreg,                        \* the switch driver's raw-register state
    mcall,                        \* the last call on the master's control surface
    ms                            \* the master device as dsa_master_setup/teardown see it

arbVars == <<datum_b53_spi_mutex, datum_spi2_i2c3_clock_short, clientForced>>
busVars == <<bus, faultBudget, hwreg>>
devVars == <<data, age>>
tagVars == <<tag_ops, refcount, tg, calls>>
sensorVars == <<arbVars, busVars, devVars, th, jiffies>>
masterVars == <<cv, cfg, swreg, mcall, ms>>
vars == <<arbVars, busVars, devVars, th, ret, jiffies, tagVars, masterVars>>

(* ------------------------------ helpers ------------------------------- *)
ToU8(x) == x % 256

\* C integer division truncates toward zero
CDiv(a, b) == IF a >= 0 THEN a \div b ELSE -((-a) \div b)

temp_from_reg(v, fraction) == ((v - 64) * 1000) + (((fraction % 256) \div 32) * 125)

temp_to_reg(v) == CDiv(v + 64, 1000)

RECURSIVE DecLen(_)
DecLen(n) == IF n < 0 THEN 1 + DecLen(-n) ELSE IF n < 10 THEN 1 ELSE 1 + DecLen(n \div 10)

\* sprintf(buf, "%d\n", n) returns the number of characters written
sprintf_d(n) == DecLen(n) + 1

time_after(a, b) == (b - a) < 0

\* register contents of the chip at power-up, with a sample conversion
HwInit == [r \in HwRegs |->
    CASE r = MCP9902_REG_R_LOCAL_TEMP -> 89
      [] r = MCP9902_REG_R_LOCAL_TEMP_FRACTION -> 32
      [] r = MCP9902_REG_R_REMOTE_TEMP -> 90
      [] r = MCP9902_REG_R_REMOTE_TEMP_FRACTION -> 64
      [] r = MCP9902_REG_R_MAN_ID -> MAN_ID
      [] r = MCP9902_REG_R_CHIP_ID -> CHIP_ID
      [] OTHER -> 0]

\* results an SMBus byte read of register r can return: the byte, or a negative errno
i2c_smbus_read_byte_data(d, r) ==
    {hwreg[d][r]} \cup (IF faultBudget > 0 THEN {-EIO} ELSE {})

\* results of an SMBus byte write: 0, or a negative errno
i2c_smbus_write_byte_data ==
    {0} \cup (IF faultBudget > 0 THEN {-EIO} ELSE {})

\* the chip after a write of byte b to write address a
HwWrite(d, a, b) ==
    IF HwWriteTarget(a) \in HwRegs
    THEN [hwreg EXCEPT ![d][HwWriteTarget(a)] = b]
    ELSE hwreg

(* ------------------------------- Init --------------------------------- *)
\* the taggers the registry knows, and what a user may write to tagging_cpu
Taggers == {"brcm", "brcm-prepend", "none"}
TagBufs == {[name |-> "brcm", count |-> 5], [name |-> "brcm-prepend", count |-> 13],
            [name |-> "none", count |-> 5], [name |-> "bogus", count |-> 6]}
NoTagger == "null"

IdleTag == [pc |-> "idle", buf |-> NoTagger, count |-> 0, old_tag_ops |-> NoTagger,
            new_tag_ops |-> NoTagger, err |-> 0,
            delta |-> [p \in Taggers |-> 0], old_refs |-> 0, interfered |-> FALSE]

IdleThread == [pc |-> "idle", op |-> "none", dev |-> 1, index |-> 0, j |-> 0, i |-> 0,
               val |-> 0, count |-> 0, fraction_reg |-> 0, man_id |-> 0, chip_id |-> 0,
               fracAge |-> -1, busFailed |-> FALSE]

\* devm_kzalloc gives zeroed data; mutex_init leaves the update lock free
mcp9902_data == [update_lock |-> NoThread, valid |-> FALSE, last_updated |-> 0,
                 temp |-> [x \in TempRegs |-> 0], alarms |-> 0]

InitCommon ==
    /\ datum_b53_spi_mutex = NoThread
    /\ datum_spi2_i2c3_clock_short = FALSE
    /\ clientForced = FALSE
    /\ bus = {}
    /\ jiffies = 0
    /\ hwreg = [d \in Devices |-> HwInit]
    /\ data = [d \in Devices |-> mcp9902_data]
    /\ age = [d \in Devices |-> [x \in TempRegs |-> 0]]
    /\ th = [t \in Threads |-> IdleThread]
    /\ ret = [t \in Threads |-> 0]
    /\ tag_ops = "brcm"
    /\ refcount = [p \in Taggers |-> IF p = "brcm" THEN 1 ELSE 0]
    /\ tg = [t \in Threads |-> IdleTag]
    /\ calls = 0

\* nothing is in flight on the master's side
NoCall == [op |-> "none"]
MasterIdle ==
    /\ cv = NoCall
    /\ cfg = NoCall
    /\ swreg = NoCall
    /\ mcall = NoCall
    /\ ms = NoCall

\* the bus works
Init == InitCommon /\ faultBudget = 0 /\ MasterIdle

\* the bus may fail
InitFault == InitCommon /\ faultBudget = MaxBusErrors /\ MasterIdle

(* ------------------------ thread bookkeeping -------------------------- *)
\* thread t enters handler o at position p with fresh locals
Enter(t, o, d, idx, v, c, p) ==
    /\ th[t].pc = "idle"
    /\ th' = [th EXCEPT ![t] = [IdleThread EXCEPT !.pc = p, !.op = o, !.dev = d,
                                                 !.index = idx, !.val = v, !.count = c]]
    /\ ret' = [ret EXCEPT ![t] = 0]

\* thread t is idle and its handler returns r before it took any lock
EarlyReturn(t, r) ==
    /\ th[t].pc = "idle"
    /\ ret' = [ret EXCEPT ![t] = r]
    /\ UNCHANGED th

Goto(t, p) == th' = [th EXCEPT ![t].pc = p]

\* the handler returns r to its caller; its locals die
Return(t, r) ==
    /\ th' = [th EXCEPT ![t] = IdleThread]
    /\ ret' = [ret EXCEPT ![t] = r]

RefreshOps == {"temp_show", "alarms_show", "alarm_show"}

(* --------------------- the clock mutex (bus arbiter) ------------------ *)
\* spi_lock as it would be with a trylock whose result is ignored
spi_lock_nowait(t) ==
    /\ datum_b53_spi_mutex' = t
    /\ UNCHANGED <<datum_spi2_i2c3_clock_short, clientForced>>

\* mutex_lock(&datum_b53_spi_mutex)
spi_lock(t) ==
    /\ datum_b53_spi_mutex = NoThread
    /\ datum_b53_spi_mutex' = t
    /\ UNCHANGED <<datum_spi2_i2c3_clock_short, clientForced>>

\* datum_b53_spi_mutex_lock(): takes the clock mutex, blocking while it is held
datum_b53_spi_mutex_lock(t) ==
    /\ datum_b53_spi_mutex = NoThread
    /\ datum_b53_spi_mutex' = t
    /\ UNCHANGED clientForced

\* datum_b53_spi_mutex_force_unlock(): clears holdership at once, no delay
datum_b53_spi_mutex_force_unlock(t) ==
    /\ datum_b53_spi_mutex' = NoThread
    /\ clientForced' = (clientForced \/ th[t].op # "spi_mutex_store")

\* spi_unlock as it would be with the mutex_unlock placed before the sleeps
spi_unlock_usleep_released(t) ==
    /\ th[t].pc = "su_usleep"
    /\ datum_b53_spi_mutex' = NoThread
    /\ Goto(t, "su_msleep")
    /\ UNCHANGED <<datum_spi2_i2c3_clock_short, clientForced, busVars, devVars, ret, jiffies, tagVars, masterVars>>

\* spi_unlock, first statement: usleep_range(100, 200) unless the adapter's
\* parent is runtime suspended; either way the mutex stays held
spi_unlock_usleep(t) ==
    /\ th[t].pc = "su_usleep"
    /\ Goto(t, "su_msleep")
    /\ UNCHANGED <<arbVars, busVars, devVars, ret, jiffies, tagVars, masterVars>>

\* spi_unlock, second statement: msleep(1), the mutex still held
spi_unlock_msleep(t) ==
    /\ th[t].pc = "su_msleep"
    /\ Goto(t, "su_unlock")
    /\ UNCHANGED <<arbVars, busVars, devVars, ret, jiffies, tagVars, masterVars>>

\* where the caller of spi_unlock continues
AfterUnlock(t) ==
    CASE th[t].op \in RefreshOps ->
             IF th[t].j + 1 < NumBursts THEN "ud_spi_lock" ELSE "ud_stamp"
      [] th[t].op = "temp_store" -> "st_mutex_unlock"
      [] th[t].op = "mcp9902_detect" -> "dt_verify"
      [] OTHER -> "pr_register"

\* spi_unlock as it would be if it ended with the force release
spi_unlock_forced(t) ==
    /\ th[t].pc = "su_unlock"
    /\ datum_b53_spi_mutex_force_unlock(t)
    /\ th' = [th EXCEPT ![t].pc = AfterUnlock(t),
                        ![t].j = IF th[t].op \in RefreshOps THEN @ + 1 ELSE @]
    /\ UNCHANGED <<datum_spi2_i2c3_clock_short, busVars, devVars, ret, jiffies, tagVars, masterVars>>

\* spi_unlock, last statement: mutex_unlock(&datum_b53_spi_mutex); in the
\* refresh loop the j++ of the for statement follows
spi_unlock_mutex_unlock(t) ==
    /\ th[t].pc = "su_unlock"
    /\ datum_b53_spi_mutex' = NoThread
    /\ th' = [th EXCEPT ![t].pc = AfterUnlock(t),
                        ![t].j = IF th[t].op \in RefreshOps THEN @ + 1 ELSE @]
    /\ UNCHANGED <<datum_spi2_i2c3_clock_short, clientForced, busVars, devVars, ret, jiffies, tagVars, masterVars>>

(* --------------------------- bus transactions ------------------------- *)
TxnPcs == {"ud_read", "ud_status", "st_write", "dt_read_man", "dt_read_chip",
           "ic_write_rate", "ic_write_cfg"}

\* a call of i2c_smbus_read_byte_data or i2c_smbus_write_byte_data puts the
\* transaction on the wire; it completes in a later step
i2c_transfer_start(t) ==
    /\ th[t].pc \in TxnPcs
    /\ t \notin bus
    /\ bus' = bus \cup {t}
    /\ UNCHANGED <<faultBudget, hwreg, arbVars, devVars, th, ret, jiffies, tagVars, masterVars>>

\* the transaction of t completes with result r
TxnDone(t, r) ==
    /\ t \in bus
    /\ bus' = bus \ {t}
    /\ faultBudget' = IF r < 0 THEN faultBudget - 1 ELSE faultBudget

(* ------------------------ mcp9902_update_device ----------------------- *)
ud_mutex_lock(t) ==
    /\ th[t].pc = "ud_mutex_lock"
    /\ data[th[t].dev].update_lock = NoThread
    /\ data' = [data EXCEPT ![th[t].dev].update_lock = t]
    /\ Goto(t, "ud_check")
    /\ UNCHANGED <<age, arbVars, busVars, ret, jiffies, tagVars, masterVars>>

\* a staleness test whose window is one jiffy shorter
Stale_short(d) == time_after(jiffies, data[d].last_updated) \/ ~data[d].valid

\* the staleness test of line 157
Stale(d) == time_after(jiffies, data[d].last_updated + 1) \/ ~data[d].valid

ud_check(t) ==
    /\ th[t].pc = "ud_check"
    /\ Goto(t, IF Stale(th[t].dev) THEN "ud_spi_lock" ELSE "ud_mutex_unlock")
    /\ UNCHANGED <<devVars, arbVars, busVars, ret, jiffies, tagVars, masterVars>>

\* top of one iteration of the for (j ...) loop: spi_lock(), i = 0
ud_spi_lock(t) ==
    /\ th[t].pc = "ud_spi_lock"
    /\ spi_lock(t)
    /\ th' = [u \in Threads |->
                IF u = t THEN [th[t] EXCEPT !.pc = "ud_read", !.i = 0]
                ELSE IF th[u].dev = th[t].dev /\ th[u].fracAge >= 0
                     THEN [th[u] EXCEPT !.fracAge = IF @ < 2 THEN @ + 1 ELSE @]
                     ELSE th[u]]
    /\ age' = [age EXCEPT ![th[t].dev] = [x \in TempRegs |-> 1]]
    /\ UNCHANGED <<data, busVars, ret, jiffies, tagVars, masterVars>>

\* data->temp[i] = i2c_smbus_read_byte_data(client, regs_read[i]); i++
ud_read(t) ==
    /\ th[t].pc = "ud_read"
    /\ \E r \in i2c_smbus_read_byte_data(th[t].dev, regs_read[th[t].i]) :
          /\ TxnDone(t, r)
          /\ data' = [data EXCEPT ![th[t].dev].temp[th[t].i] = ToU8(r)]
          /\ th' = [th EXCEPT ![t].i = @ + 1,
                              ![t].pc = IF th[t].i + 1 < t_num_regs THEN "ud_read" ELSE "ud_status",
                              ![t].busFailed = @ \/ (r < 0)]
    /\ age' = [age EXCEPT ![th[t].dev][th[t].i] = 0]
    /\ UNCHANGED <<arbVars, hwreg, ret, jiffies, tagVars, masterVars>>

\* data->alarms = i2c_smbus_read_byte_data(client, MCP9902_REG_R_STATUS)
ud_status(t) ==
    /\ th[t].pc = "ud_status"
    /\ \E r \in i2c_smbus_read_byte_data(th[t].dev, MCP9902_REG_R_STATUS) :
          /\ TxnDone(t, r)
          /\ data' = [data EXCEPT ![th[t].dev].alarms = ToU8(r)]
          /\ th' = [th EXCEPT ![t].pc = "su_usleep", ![t].busFailed = @ \/ (r < 0)]
    /\ UNCHANGED <<age, arbVars, hwreg, ret, jiffies, tagVars, masterVars>>

\* data->last_updated = jiffies; data->valid = 1
ud_stamp(t) ==
    /\ th[t].pc = "ud_stamp"
    /\ data' = [data EXCEPT ![th[t].dev].last_updated = jiffies, ![th[t].dev].valid = TRUE]
    /\ Goto(t, "ud_mutex_unlock")
    /\ UNCHANGED <<age, arbVars, busVars, ret, jiffies, tagVars, masterVars>>

\* mutex_unlock(&data->update_lock); return data
ud_mutex_unlock(t) ==
    /\ th[t].pc = "ud_mutex_unlock"
    /\ data' = [data EXCEPT ![th[t].dev].update_lock = NoThread]
    /\ Goto(t, IF th[t].op = "temp_show" THEN "ts_frac" ELSE "al_read")
    /\ UNCHANGED <<age, arbVars, busVars, ret, jiffies, tagVars, masterVars>>

(* ----------------------------- sysfs reads ---------------------------- *)
temp_show(t) ==
    /\ \E d \in Devices, idx \in ShowIdx : Enter(t, "temp_show", d, idx, 0, 0, "ud_mutex_lock")
    /\ UNCHANGED <<arbVars, busVars, devVars, jiffies, tagVars, masterVars>>

\* the cache entry holding the fraction byte of reading idx, -1 if it has none
FractionOf(idx) ==
    CASE idx = t_input1 -> t_input1_fraction
      [] idx = t_input2 -> t_input2_fraction
      [] OTHER -> -1

\* the switch on attr->index: the fraction byte is read from the cache
ts_frac(t) ==
    /\ th[t].pc = "ts_frac"
    /\ LET f == FractionOf(th[t].index)
       IN th' = [th EXCEPT ![t].pc = "ts_val",
                           ![t].fraction_reg = IF f = -1 THEN 0 ELSE data[th[t].dev].temp[f],
                           ![t].fracAge = IF f = -1 THEN -1 ELSE age[th[t].dev][f]]
    /\ UNCHANGED <<arbVars, busVars, devVars, ret, jiffies, tagVars, masterVars>>

\* return sprintf(buf, "%d\n", temp_from_reg(data->temp[attr->index], fraction_reg))
ts_val(t) ==
    /\ th[t].pc = "ts_val"
    /\ Return(t, sprintf_d(temp_from_reg(data[th[t].dev].temp[th[t].index], th[t].fraction_reg)))
    /\ UNCHANGED <<arbVars, busVars, devVars, jiffies, tagVars, masterVars>>

alarms_show(t) ==
    /\ \E d \in Devices : Enter(t, "alarms_show", d, 0, 0, 0, "ud_mutex_lock")
    /\ UNCHANGED <<arbVars, busVars, devVars, jiffies, tagVars, masterVars>>

alarm_show(t) ==
    /\ \E d \in Devices, bitnr \in AlarmBits :
          Enter(t, "alarm_show", d, bitnr, 0, 0, "ud_mutex_lock")
    /\ UNCHANGED <<arbVars, busVars, devVars, jiffies, tagVars, masterVars>>

\* bit bitnr of byte b
Bit(b, bitnr) == (b \div (2 ^ bitnr)) % 2

\* the sprintf of alarms_show and of alarm_show
al_read(t) ==
    /\ th[t].pc = "al_read"
    /\ Return(t, sprintf_d(IF th[t].op = "alarms_show" THEN data[th[t].dev].alarms
                           ELSE Bit(data[th[t].dev].alarms, th[t].index)))
    /\ UNCHANGED <<arbVars, busVars, devVars, jiffies, tagVars, masterVars>>

(* ------------------------------ temp_store ---------------------------- *)
\* kstrtol(buf, 10, &val): a malformed number returns its error at once
temp_store(t) ==
    /\ \E d \in Devices, idx \in StoreIdx, buf \in StoreBufs :
          IF buf.ok
          THEN Enter(t, "temp_store", d, idx, buf.val, buf.count, "st_mutex_lock")
          ELSE EarlyReturn(t, -EINVAL)
    /\ UNCHANGED <<arbVars, busVars, devVars, jiffies, tagVars, masterVars>>

\* temp_store as it would be if it did not take the update lock
st_mutex_lock_skipped(t) ==
    /\ th[t].pc = "st_mutex_lock"
    /\ Goto(t, "st_set")
    /\ UNCHANGED <<devVars, arbVars, busVars, ret, jiffies, tagVars, masterVars>>

st_mutex_lock(t) ==
    /\ th[t].pc = "st_mutex_lock"
    /\ data[th[t].dev].update_lock = NoThread
    /\ data' = [data EXCEPT ![th[t].dev].update_lock = t]
    /\ Goto(t, "st_set")
    /\ UNCHANGED <<age, arbVars, busVars, ret, jiffies, tagVars, masterVars>>

\* data->temp[attr->index] = temp_to_reg(val)
st_set(t) ==
    /\ th[t].pc = "st_set"
    /\ data' = [data EXCEPT ![th[t].dev].temp[th[t].index] = ToU8(temp_to_reg(th[t].val))]
    /\ Goto(t, "st_spi_lock")
    /\ UNCHANGED <<age, arbVars, busVars, ret, jiffies, tagVars, masterVars>>

\* temp_store as it would be if it dropped the update lock before spi_lock()
st_spi_lock_dropping(t) ==
    /\ th[t].pc = "st_spi_lock"
    /\ spi_lock(t)
    /\ data' = [data EXCEPT ![th[t].dev].update_lock = NoThread]
    /\ Goto(t, "st_write")
    /\ UNCHANGED <<age, busVars, ret, jiffies, tagVars, masterVars>>

st_spi_lock(t) ==
    /\ th[t].pc = "st_spi_lock"
    /\ spi_lock(t)
    /\ Goto(t, "st_write")
    /\ UNCHANGED <<busVars, devVars, ret, jiffies, tagVars, masterVars>>

\* i2c_smbus_write_byte_data(client, regs_write[attr->index], data->temp[attr->index]);
\* the result is dropped
st_write(t) ==
    /\ th[t].pc = "st_write"
    /\ \E r \in i2c_smbus_write_byte_data :
          /\ TxnDone(t, r)
          /\ hwreg' = IF r = 0
                      THEN HwWrite(th[t].dev, regs_write[th[t].index],
                                   data[th[t].dev].temp[th[t].index])
                      ELSE hwreg
          /\ th' = [th EXCEPT ![t].pc = "su_usleep", ![t].busFailed = @ \/ (r < 0)]
    /\ UNCHANGED <<arbVars, devVars, ret, jiffies, tagVars, masterVars>>

\* mutex_unlock(&data->update_lock); return count
\* temp_store as it would be if it returned with the update lock held
st_mutex_unlock_kept(t) ==
    /\ th[t].pc = "st_mutex_unlock"
    /\ Return(t, th[t].count)
    /\ UNCHANGED <<devVars, arbVars, busVars, jiffies, tagVars, masterVars>>

st_mutex_unlock(t) ==
    /\ th[t].pc = "st_mutex_unlock"
    /\ data' = [data EXCEPT ![th[t].dev].update_lock = NoThread]
    /\ Return(t, th[t].count)
    /\ UNCHANGED <<age, arbVars, busVars, jiffies, tagVars, masterVars>>

(* ---------------------------- mcp9902_detect -------------------------- *)
\* i2c_check_functionality(adapter, I2C_FUNC_SMBUS_BYTE_DATA) decides the entry
mcp9902_detect(t) ==
    /\ \E d \in Devices, functionality \in BOOLEAN :
          IF functionality
          THEN Enter(t, "mcp9902_detect", d, 0, 0, 0, "dt_spi_lock")
          ELSE EarlyReturn(t, -ENODEV)
    /\ UNCHANGED <<arbVars, busVars, devVars, jiffies, tagVars, masterVars>>

dt_spi_lock(t) ==
    /\ th[t].pc = "dt_spi_lock"
    /\ spi_lock(t)
    /\ Goto(t, "dt_read_man")
    /\ UNCHANGED <<busVars, devVars, ret, jiffies, tagVars, masterVars>>

dt_read_man(t) ==
    /\ th[t].pc = "dt_read_man"
    /\ \E r \in i2c_smbus_read_byte_data(th[t].dev, MCP9902_REG_R_MAN_ID) :
          /\ TxnDone(t, r)
          /\ th' = [th EXCEPT ![t].pc = "dt_read_chip", ![t].man_id = ToU8(r),
                              ![t].busFailed = @ \/ (r < 0)]
    /\ UNCHANGED <<arbVars, hwreg, devVars, ret, jiffies, tagVars, masterVars>>

dt_read_chip(t) ==
    /\ th[t].pc = "dt_read_chip"
    /\ \E r \in i2c_smbus_read_byte_data(th[t].dev, MCP9902_REG_R_CHIP_ID) :
          /\ TxnDone(t, r)
          /\ th' = [th EXCEPT ![t].pc = "su_usleep", ![t].chip_id = ToU8(r),
                              ![t].busFailed = @ \/ (r < 0)]
    /\ UNCHANGED <<arbVars, hwreg, devVars, ret, jiffies, tagVars, masterVars>>

dt_verify(t) ==
    /\ th[t].pc = "dt_verify"
    /\ Return(t, IF th[t].man_id # MAN_ID \/ th[t].chip_id # CHIP_ID THEN -ENODEV ELSE 0)
    /\ UNCHANGED <<arbVars, busVars, devVars, jiffies, tagVars, masterVars>>

(* ------------------- mcp9902_probe / mcp9902_init_client -------------- *)
\* devm_kzalloc decides the entry; the new client's data is not yet visible
\* to any other thread
mcp9902_probe(t) ==
    /\ \E d \in Devices, allocated \in BOOLEAN :
          IF allocated
          THEN Enter(t, "mcp9902_probe", d, 0, 0, 0, "ic_spi_lock")
          ELSE EarlyReturn(t, -ENOMEM)
    /\ UNCHANGED <<arbVars, busVars, devVars, jiffies, tagVars, masterVars>>

\* mcp9902_init_client as it would be without its spi_lock()
ic_spi_lock_skipped(t) ==
    /\ th[t].pc = "ic_spi_lock"
    /\ Goto(t, "ic_write_rate")
    /\ UNCHANGED <<arbVars, busVars, devVars, ret, jiffies, tagVars, masterVars>>

ic_spi_lock(t) ==
    /\ th[t].pc = "ic_spi_lock"
    /\ spi_lock(t)
    /\ Goto(t, "ic_write_rate")
    /\ UNCHANGED <<busVars, devVars, ret, jiffies, tagVars, masterVars>>

ic_write_rate(t) ==
    /\ th[t].pc = "ic_write_rate"
    /\ \E r \in i2c_smbus_write_byte_data :
          /\ TxnDone(t, r)
          /\ hwreg' = IF r = 0 THEN HwWrite(th[t].dev, MCP9902_REG_W_CONVRATE, CONVRATE_2HZ)
                      ELSE hwreg
          /\ th' = [th EXCEPT ![t].pc = "ic_write_cfg", ![t].busFailed = @ \/ (r < 0)]
    /\ UNCHANGED <<arbVars, devVars, ret, jiffies, tagVars, masterVars>>

ic_write_cfg(t) ==
    /\ th[t].pc = "ic_write_cfg"
    /\ \E r \in i2c_smbus_write_byte_data :
          /\ TxnDone(t, r)
          /\ hwreg' = IF r = 0 THEN HwWrite(th[t].dev, MCP9902_REG_W_CONFIG, CONFIG_RUN)
                      ELSE hwreg
          /\ th' = [th EXCEPT ![t].pc = "su_usleep", ![t].busFailed = @ \/ (r < 0)]
    /\ UNCHANGED <<arbVars, devVars, ret, jiffies, tagVars, masterVars>>

\* devm_hwmon_device_register_with_groups; return PTR_ERR_OR_ZERO(hwmon_dev)
pr_register(t) ==
    /\ th[t].pc = "pr_register"
    /\ \E r \in {0, -ENOMEM} : Return(t, r)
    /\ UNCHANGED <<arbVars, busVars, devVars, jiffies, tagVars, masterVars>>

(* --------------------------- spi_mutex_store -------------------------- *)
\* a write to spi_mutex begins; index holds what sscanf will convert
spi_mutex_store(t) ==
    /\ \E buf \in MutexBufs :
          Enter(t, "spi_mutex_store", 1, buf.parsed, buf.val, buf.count, "sm_parse")
    /\ UNCHANGED <<arbVars, busVars, devVars, jiffies, tagVars, masterVars>>

\* the checks of the input with the one on the value left out
sm_parse_any_value(t) ==
    /\ th[t].pc = "sm_parse"
    /\ IF th[t].count # 2 \/ th[t].index # 1
       THEN Return(t, -EINVAL)
       ELSE /\ Goto(t, "sm_lock")
            /\ UNCHANGED ret
    /\ UNCHANGED <<arbVars, busVars, devVars, jiffies, tagVars, masterVars>>

\* the three checks of the input: count, sscanf, value
sm_parse(t) ==
    /\ th[t].pc = "sm_parse"
    /\ IF th[t].count # 2 \/ th[t].index # 1 \/ (th[t].val # 0 /\ th[t].val # 1)
       THEN Return(t, -EINVAL)
       ELSE /\ Goto(t, "sm_lock")
            /\ UNCHANGED ret
    /\ UNCHANGED <<arbVars, busVars, devVars, jiffies, tagVars, masterVars>>

\* spi_mutex_store as it would be if it set the flag without the arbiter
sm_lock_skipped(t) ==
    /\ th[t].pc = "sm_lock"
    /\ Goto(t, "sm_set")
    /\ UNCHANGED <<arbVars, busVars, devVars, ret, jiffies, tagVars, masterVars>>

sm_lock(t) ==
    /\ th[t].pc = "sm_lock"
    /\ datum_b53_spi_mutex_lock(t)
    /\ Goto(t, "sm_set")
    /\ UNCHANGED <<datum_spi2_i2c3_clock_short, busVars, devVars, ret, jiffies, tagVars, masterVars>>

\* datum_spi2_i2c3_clock_short = mutex_enable ? true : false
sm_set(t) ==
    /\ th[t].pc = "sm_set"
    /\ datum_spi2_i2c3_clock_short' = (th[t].val # 0)
    /\ Goto(t, "sm_force_unlock")
    /\ UNCHANGED <<datum_b53_spi_mutex, clientForced, busVars, devVars, ret, jiffies, tagVars, masterVars>>

\* datum_b53_spi_mutex_force_unlock(); return count
sm_force_unlock(t) ==
    /\ th[t].pc = "sm_force_unlock"
    /\ datum_b53_spi_mutex_force_unlock(t)
    /\ Return(t, th[t].count)
    /\ UNCHANGED <<datum_spi2_i2c3_clock_short, busVars, devVars, jiffies, tagVars, masterVars>>

(* --------------------------- tagging_cpu_store ------------------------ *)
\* thread t moves to rec; every other call in flight has now seen the shared
\* tagger state change under it
TagMove(t, rec) ==
    tg' = [u \in Threads |->
             IF u = t THEN rec
             ELSE IF tg[u].pc # "idle" THEN [tg[u] EXCEPT !.interfered = TRUE]
             ELSE tg[u]]

\* the tagger registry: a known name yields its driver with a reference taken
dsa_find_tagger_by_name(name) ==
    IF name \in Taggers THEN [ops |-> name, err |-> 0]
    ELSE [ops |-> NoTagger, err |-> -ENOPROTOOPT]

dsa_tag_driver_get(p) == [refcount EXCEPT ![p] = @ + 1]

dsa_tag_driver_put(p) == [refcount EXCEPT ![p] = @ - 1]

\* a write to tagging_cpu begins: old_tag_ops = cpu_dp->tag_ops
tagging_cpu_store(t) ==
    /\ tg[t].pc = "idle"
    /\ th[t].pc = "idle"
    /\ calls < MaxCalls
    /\ \E b \in TagBufs :
          tg' = [tg EXCEPT ![t] = [IdleTag EXCEPT !.pc = "tc_find", !.buf = b.name,
                                                 !.count = b.count,
                                                 !.old_tag_ops = tag_ops,
                                                 !.old_refs = refcount[tag_ops]]]
    /\ calls' = calls + 1
    /\ ret' = [ret EXCEPT ![t] = 0]
    /\ UNCHANGED <<sensorVars, masterVars, tag_ops, refcount>>

\* the handler returns r; its locals die
TagReturn(t, r, disturbs) ==
    /\ IF disturbs THEN TagMove(t, IdleTag) ELSE tg' = [tg EXCEPT ![t] = IdleTag]
    /\ ret' = [ret EXCEPT ![t] = r]

\* new_tag_ops = dsa_find_tagger_by_name(buf), the IS_ERR return and the
\* comparison with old_tag_ops
tc_find(t) ==
    /\ tg[t].pc = "tc_find"
    /\ LET found == dsa_find_tagger_by_name(tg[t].buf) IN
         IF found.err # 0
         THEN /\ TagReturn(t, found.err, FALSE)
              /\ UNCHANGED refcount
         ELSE /\ refcount' = dsa_tag_driver_get(found.ops)
              /\ TagMove(t, [tg[t] EXCEPT
                                !.new_tag_ops = found.ops,
                                !.delta[found.ops] = @ + 1,
                                !.pc = IF found.ops = tg[t].old_tag_ops
                                       THEN "tc_put_old" ELSE "tc_change"])
              /\ UNCHANGED ret
    /\ UNCHANGED <<sensorVars, masterVars, tag_ops, calls>>

\* err = dsa_tree_change_tag_proto(...): every port of the tree switches to the
\* new tagger, or none does and err says why
dsa_tree_change_tag_proto(t) ==
    /\ tg[t].pc = "tc_change"
    /\ \E err \in {0, -EBUSY} :
          IF err = 0
          THEN /\ tag_ops' = tg[t].new_tag_ops
               /\ TagMove(t, [tg[t] EXCEPT !.pc = "tc_put_old"])
          ELSE /\ tg' = [tg EXCEPT ![t].pc = "tc_put_new", ![t].err = err]
               /\ UNCHANGED tag_ops
    /\ UNCHANGED <<sensorVars, masterVars, refcount, calls, ret>>

\* the failure path returns err and keeps the reference on the new tagger
tc_put_new_kept(t) ==
    /\ tg[t].pc = "tc_put_new"
    /\ TagReturn(t, tg[t].err, FALSE)
    /\ UNCHANGED <<sensorVars, masterVars, tag_ops, refcount, calls>>

\* the failure path: dsa_tag_driver_put(new_tag_ops); return err
tc_put_new(t) ==
    /\ tg[t].pc = "tc_put_new"
    /\ refcount' = dsa_tag_driver_put(tg[t].new_tag_ops)
    /\ TagReturn(t, tg[t].err, TRUE)
    /\ UNCHANGED <<sensorVars, masterVars, tag_ops, calls>>

\* out: dsa_tag_driver_put(old_tag_ops); return count
tc_put_old(t) ==
    /\ tg[t].pc = "tc_put_old"
    /\ refcount' = dsa_tag_driver_put(tg[t].old_tag_ops)
    /\ TagReturn(t, tg[t].count, TRUE)
    /\ UNCHANGED <<sensorVars, masterVars, tag_ops, calls>>

(* ------------------------------ tagging_imp --------------------------- *)
\* what the switch driver offers: the protocol get_tag_protocol reports for
\* port 8, and whether it has change_tag_protocol
ImpConfigs ==
    {[op |-> "imp", proto |-> p, change_tag_protocol |-> c] :
        p \in Taggers, c \in BOOLEAN}

IdleImp == [op |-> "none", buf |-> NoTagger, ret |-> 0, drv |-> <<>>]

InitImp ==
    /\ InitCommon /\ faultBudget = 0
    /\ cfg \in ImpConfigs
    /\ mcall = IdleImp
    /\ cv = NoCall /\ swreg = NoCall /\ ms = NoCall

\* strlen of a tagger's name
NameLen(name) ==
    LET known == {b \in TagBufs : b.name = name}
    IN IF known = {} THEN 0 ELSE (CHOOSE b \in known : TRUE).count - 1

\* tagging_imp_show: tag_ops = dsa_tag_driver_get(proto); sprintf "%s\n"
tagging_imp_show ==
    /\ cfg.op = "imp"
    /\ calls < MaxCalls
    /\ calls' = calls + 1
    /\ refcount' = dsa_tag_driver_get(cfg.proto)
    /\ mcall' = [IdleImp EXCEPT !.op = "tagging_imp_show", !.ret = NameLen(cfg.proto) + 1]
    /\ UNCHANGED <<sensorVars, ret, tag_ops, tg, cv, cfg, swreg, ms>>

\* tagging_imp_store: dsa_find_tagger_by_name(buf), the IS_ERR return, the
\* -EOPNOTSUPP return, ds->ops->change_tag_protocol(ds, 8, new_tag_ops->proto)
tagging_imp_store ==
    /\ cfg.op = "imp"
    /\ calls < MaxCalls
    /\ calls' = calls + 1
    /\ \E b \in TagBufs :
          LET found == dsa_find_tagger_by_name(b.name) IN
            IF found.err # 0
            THEN /\ mcall' = [IdleImp EXCEPT !.op = "tagging_imp_store", !.buf = b.name,
                                             !.ret = found.err]
                 /\ UNCHANGED refcount
            ELSE /\ refcount' = dsa_tag_driver_get(found.ops)
                 /\ mcall' = IF ~cfg.change_tag_protocol
                             THEN [IdleImp EXCEPT !.op = "tagging_imp_store",
                                                  !.buf = b.name, !.ret = -EOPNOTSUPP]
                             ELSE [IdleImp EXCEPT !.op = "tagging_imp_store",
                                                  !.buf = b.name, !.ret = b.count,
                                                  !.drv = <<[cmd |-> "change_tag_protocol",
                                                             port |-> 8,
                                                             proto |-> found.ops]>>]
    /\ UNCHANGED <<sensorVars, ret, tag_ops, tg, cv, cfg, swreg, ms>>

(* ----------------------- a threshold's round trip --------------------- *)
\* the thresholds a register byte can stand for, in milli-degrees
ThresholdInputs == {(r - 64) * 1000 : r \in 0..255}

InitConv ==
    /\ InitCommon /\ faultBudget = 0
    /\ cv \in {[op |-> "threshold", pc |-> "store", V |-> v, reg |-> 0, out |-> 0] :
                 v \in ThresholdInputs}
    /\ cfg = NoCall /\ swreg = NoCall /\ mcall = NoCall /\ ms = NoCall

\* temp_store: data->temp[attr->index] = temp_to_reg(val), a u8
cv_temp_store ==
    /\ cv.op = "threshold" /\ cv.pc = "store"
    /\ cv' = [cv EXCEPT !.reg = ToU8(temp_to_reg(cv.V)), !.pc = "show"]
    /\ UNCHANGED <<sensorVars, ret, tagVars, cfg, swreg, mcall, ms>>

\* temp_show of a threshold: temp_from_reg(data->temp[attr->index], 0)
cv_temp_show ==
    /\ cv.op = "threshold" /\ cv.pc = "show"
    /\ cv' = [cv EXCEPT !.out = temp_from_reg(cv.reg, 0), !.pc = "shown"]
    /\ UNCHANGED <<sensorVars, ret, tagVars, cfg, swreg, mcall, ms>>

(* ------------------------ the raw-register port ---------------------- *)
\* a token of a sysfs write as sscanf meets it: a number it can convert, or
\* text it cannot
Tok(v) == [ok |-> TRUE, v |-> v]
JunkTok == [ok |-> FALSE, v |-> 0]

\* sscanf: the number of leading items converted, at most n; what follows the
\* n-th item is not looked at
RECURSIVE sscanf(_, _)
sscanf(tok, n) ==
    IF n = 0 \/ tok = <<>> \/ ~Head(tok).ok THEN 0
    ELSE 1 + sscanf(Tail(tok), n - 1)

\* a 64-bit value, as its 16 hexadecimal digits, most significant first
Hex64(digits) == [k \in 1..16 |-> IF k <= 16 - Len(digits) THEN 0
                                   ELSE digits[k - (16 - Len(digits))]]
RegValues == {Hex64(<<0>>), Hex64(<<5>>), Hex64(<<10, 5>>), Hex64(<<1, 2, 3, 4>>),
              Hex64(<<1, 2, 3, 4, 5, 6, 7, 8>>),
              Hex64(<<1, 2, 3, 4, 5, 6, 7, 8, 9, 10, 11, 12>>),
              Hex64(<<15, 15, 15, 15, 15, 15, 15, 15, 15, 15, 15, 15, 15, 15, 15, 15>>)}

\* what a user may write to rdreg ("page:reg:size") and to wrreg
\* ("page:reg:size:value")
RdBufs ==
    {[tok |-> <<Tok(0), Tok(16), Tok(w)>>, count |-> 7] : w \in {0, 1, 2, 3, 4, 6, 8}}
    \cup {[tok |-> <<Tok(0), Tok(16)>>, count |-> 5],
          [tok |-> <<Tok(0), JunkTok, Tok(4)>>, count |-> 7],
          [tok |-> <<Tok(0), Tok(16), Tok(4), Tok(9)>>, count |-> 9],
          [tok |-> <<>>, count |-> 1]}
WrBufs ==
    {[tok |-> <<Tok(0), Tok(16), Tok(w), Tok(Hex64(<<10, 5>>))>>, count |-> 10] :
        w \in {1, 2, 3, 4, 6, 8}}
    \cup {[tok |-> <<Tok(0), Tok(16), Tok(4)>>, count |-> 7],
          [tok |-> <<Tok(0), Tok(16), Tok(4), JunkTok>>, count |-> 10]}

NoAddr == [page |-> 0, reg |-> 0, size |-> 0]
IdleCall == [op |-> "none", buf |-> [tok |-> <<>>, count |-> 0], ret |-> 0,
             drv |-> <<>>, out |-> <<>>]

InitDebug ==
    /\ InitCommon /\ faultBudget = 0
    /\ swreg = [op |-> "switch", pending |-> NoAddr, written |-> <<>>]
    /\ mcall = IdleCall
    /\ cv = NoCall /\ cfg = NoCall /\ ms = NoCall

\* the switch driver answers a command with 0, or with an error when it rejects it
DriverAnswers == {0, -EIO}

\* ds->ops->switch_setup_get_reg(ds, page, reg, size): the driver keeps the
\* address for the read that follows
switch_setup_get_reg(r, page, reg, size) ==
    IF r = 0 THEN [swreg EXCEPT !.pending = [page |-> page, reg |-> reg, size |-> size]]
    ELSE swreg

\* ds->ops->switch_set_reg(ds, page, reg, size, value)
switch_set_reg(r, page, reg, size, value) ==
    IF r = 0 THEN [swreg EXCEPT !.written = <<[page |-> page, reg |-> reg, size |-> size,
                                               value |-> value]>>]
    ELSE swreg

\* rdreg_store: sscanf(buf, "%hhx:%hhx:%hhx", &page, &reg, &size), then the
\* set-up-read command
rdreg_store ==
    \E buf \in RdBufs :
        /\ IF sscanf(buf.tok, 3) # 3
           THEN /\ mcall' = [IdleCall EXCEPT !.op = "rdreg_store", !.buf = buf,
                                             !.ret = -EINVAL]
                /\ UNCHANGED swreg
           ELSE \E r \in DriverAnswers :
                  LET page == ToU8(buf.tok[1].v)
                      reg == ToU8(buf.tok[2].v)
                      size == ToU8(buf.tok[3].v)
                  IN /\ swreg' = switch_setup_get_reg(r, page, reg, size)
                     /\ mcall' = [IdleCall EXCEPT
                                    !.op = "rdreg_store", !.buf = buf,
                                    !.ret = IF r = 0 THEN buf.count ELSE -EIO,
                                    !.drv = <<[cmd |-> "switch_setup_get_reg",
                                               page |-> page, reg |-> reg,
                                               size |-> size]>>]
        /\ UNCHANGED <<sensorVars, ret, tagVars, cv, cfg, ms>>

\* wrreg_store: sscanf(buf, "%hhx:%hhx:%hhx:%llx", ...), then the set-register
\* command
wrreg_store ==
    \E buf \in WrBufs :
        /\ IF sscanf(buf.tok, 4) # 4
           THEN /\ mcall' = [IdleCall EXCEPT !.op = "wrreg_store", !.buf = buf,
                                             !.ret = -EINVAL]
                /\ UNCHANGED swreg
           ELSE \E r \in DriverAnswers :
                  LET page == ToU8(buf.tok[1].v)
                      reg == ToU8(buf.tok[2].v)
                      size == ToU8(buf.tok[3].v)
                      value == buf.tok[4].v
                  IN /\ swreg' = switch_set_reg(r, page, reg, size, value)
                     /\ mcall' = [IdleCall EXCEPT
                                    !.op = "wrreg_store", !.buf = buf,
                                    !.ret = IF r = 0 THEN buf.count ELSE -EIO,
                                    !.drv = <<[cmd |-> "switch_set_reg",
                                               page |-> page, reg |-> reg,
                                               size |-> size]>>]
        /\ UNCHANGED <<sensorVars, ret, tagVars, cv, cfg, ms>>

\* the digits printf's %x writes: no leading zeros, at least one digit
RECURSIVE sprintf_x(_)
sprintf_x(digits) ==
    IF Len(digits) <= 1 \/ Head(digits) # 0 THEN digits ELSE sprintf_x(Tail(digits))

\* the cast of a u64 to an unsigned type of n hexadecimal digits
LowDigits(value, n) == SubSeq(value, 17 - n, 16)

\* the switch (size) of rdreg_show: the text before the newline, <<>> for the
\* default branch
rdreg_format(size, value) ==
    CASE size = 1 -> sprintf_x(LowDigits(value, 2))
      [] size = 2 -> sprintf_x(LowDigits(value, 4))
      [] size = 4 -> sprintf_x(LowDigits(value, 8))
      [] size = 6 -> sprintf_x(value)
      [] size = 8 -> sprintf_x(value)
      [] OTHER -> <<>>

\* ds->ops->switch_get_reg(ds, &size, &value): the driver reads the register
\* at the pending address and answers with the pending width and the value
switch_get_reg(r, value) == [err |-> r, size |-> swreg.pending.size, value |-> value]

\* rdreg_show: -EIO when the driver fails or the size is none of 1, 2, 4, 6, 8,
\* else the length of the formatted text
rdreg_show ==
    \E r \in DriverAnswers, value \in RegValues :
        LET got == switch_get_reg(r, value)
            text == rdreg_format(got.size, got.value)
        IN /\ mcall' = [IdleCall EXCEPT
                          !.op = "rdreg_show",
                          !.ret = IF got.err # 0 \/ text = <<>> THEN -EIO
                                  ELSE Len(text) + 1,
                          !.drv = <<[cmd |-> "switch_get_reg", page |-> swreg.pending.page,
                                     reg |-> swreg.pending.reg, size |-> got.size]>>,
                          !.out = IF got.err # 0 THEN <<>> ELSE text]
           /\ UNCHANGED <<sensorVars, ret, tagVars, cv, cfg, ms, swreg>>

(* ------------------- the master's ethtool statistics ------------------ *)
\* what the master's original ethtool_ops, the master's PHY and the switch
\* driver offer, the statistics set asked for, and the CPU port's index
PortIndexes == {0, 5, 11}
StatsConfigs ==
    [op : {"stats"}, m_sset : BOOLEAN, m_stats : BOOLEAN, m_phy_stats : BOOLEAN, m_strings : BOOLEAN,
     phydev : BOOLEAN, m_neg : BOOLEAN,
     d_sset : BOOLEAN, d_stats : BOOLEAN, d_phy_stats : BOOLEAN, d_strings : BOOLEAN,
     sset : {"ETH_SS_STATS", "ETH_SS_PHY_STATS"}, port : PortIndexes]

\* ops->get_sset_count(dev, sset) and phy_ethtool_get_sset_count(dev->phydev):
\* a count, or a negative errno
ops_get_sset_count == IF cfg.m_neg THEN -EOPNOTSUPP ELSE NumMasterStats
phy_ethtool_get_sset_count == IF cfg.m_neg THEN -EOPNOTSUPP ELSE NumPhyStats
ds_get_sset_count == NumSwitchStats

\* the names the providers write, each ETH_GSTRING_LEN bytes: a short name
\* padded with zeros or, for the switch's last statistic, a name of full length
GString(c, i) == [k \in 1..ETH_GSTRING_LEN |-> IF k = 1 THEN c ELSE IF k = 2 THEN 48 + i ELSE 0]
FullString == [k \in 1..ETH_GSTRING_LEN |-> 64 + k]
MasterStrings(n) == [i \in 1..n |-> GString(109, i)]
PhyStrings(n) == [i \in 1..n |-> GString(121, i)]
DsStrings == [i \in 1..NumSwitchStats |->
                IF i = NumSwitchStats THEN FullString ELSE GString(114, i)]

RECURSIVE Flatten(_)
Flatten(strings) == IF strings = <<>> THEN <<>> ELSE Head(strings) \o Flatten(Tail(strings))

\* the buffer ethtool hands to get_strings
EmptyData == [k \in 1..((NumMasterStats + NumSwitchStats) * ETH_GSTRING_LEN) |-> 0]

\* bytes stored at offset pos of buf
WriteAt(buf, pos, bytes) ==
    [k \in 1..Len(buf) |-> IF k > pos /\ k <= pos + Len(bytes) THEN bytes[k - pos] ELSE buf[k]]

\* memmove(buf + dst, buf + src, n)
memmove(buf, dst, src, n) ==
    [k \in 1..Len(buf) |-> IF k > dst /\ k <= dst + n THEN buf[src + (k - dst)] ELSE buf[k]]

\* the decimal digits of n >= 0 as characters, at least two of them ("%.2d")
RECURSIVE DecDigits(_)
DecDigits(n) == IF n < 10 THEN <<48 + n>> ELSE DecDigits(n \div 10) \o <<48 + (n % 10)>>
Dec2(n) == IF n < 10 THEN <<48>> \o DecDigits(n) ELSE DecDigits(n)

\* snprintf(pfx, sizeof(pfx), "p%.2d", port); pfx[sizeof(pfx) - 1] = '_'
Prefix(port) == SubSeq(<<112>> \o Dec2(port), 1, PfxLen - 1) \o <<95>>

IdleStats == [op |-> "stats", counted |-> FALSE, mcount |-> 0, total |-> 0,
              statsDone |-> FALSE, statsWritten |-> FALSE, statsAt |-> 0,
              stringsDone |-> FALSE, stringsWritten |-> FALSE, stringsAt |-> 0,
              oops |-> FALSE, msegment |-> <<>>, data |-> EmptyData]

InitStats ==
    /\ InitCommon /\ faultBudget = 0
    /\ cfg \in StatsConfigs
    /\ mcall = IdleStats
    /\ cv = NoCall /\ swreg = NoCall /\ ms = NoCall

\* int count as dsa_master_get_sset_count has it before it adds the switch's
sset_master_count ==
    LET count == IF cfg.sset = "ETH_SS_PHY_STATS" /\ cfg.phydev /\ ~cfg.m_phy_stats
                 THEN phy_ethtool_get_sset_count
                 ELSE IF cfg.m_sset THEN ops_get_sset_count ELSE 0
    IN IF count < 0 THEN 0 ELSE count

dsa_master_get_sset_count ==
    /\ mcall.op = "stats" /\ ~mcall.counted
    /\ mcall' = [mcall EXCEPT !.counted = TRUE, !.mcount = sset_master_count,
                              !.total = sset_master_count
                                        + (IF cfg.d_sset THEN ds_get_sset_count ELSE 0)]
    /\ UNCHANGED <<sensorVars, ret, tagVars, cv, cfg, swreg, ms>>

\* the switch's values go to data + count
dsa_master_get_ethtool_stats ==
    /\ mcall.op = "stats" /\ cfg.sset = "ETH_SS_STATS" /\ ~mcall.statsDone
    /\ LET count == IF cfg.m_sset /\ cfg.m_stats THEN ops_get_sset_count ELSE 0
       IN mcall' = [mcall EXCEPT !.statsDone = TRUE, !.statsWritten = cfg.d_stats,
                                 !.statsAt = IF cfg.d_stats THEN count ELSE 0]
    /\ UNCHANGED <<sensorVars, ret, tagVars, cv, cfg, swreg, ms>>

dsa_master_get_ethtool_phy_stats ==
    /\ mcall.op = "stats" /\ cfg.sset = "ETH_SS_PHY_STATS" /\ ~mcall.statsDone
    /\ LET c0 == IF cfg.phydev /\ ~cfg.m_phy_stats THEN phy_ethtool_get_sset_count
                 ELSE IF cfg.m_sset /\ cfg.m_phy_stats THEN ops_get_sset_count
                 ELSE 0
           count == IF c0 < 0 THEN 0 ELSE c0
       IN mcall' = [mcall EXCEPT !.statsDone = TRUE, !.statsWritten = cfg.d_phy_stats,
                                 !.statsAt = IF cfg.d_phy_stats THEN count ELSE 0]
    /\ UNCHANGED <<sensorVars, ret, tagVars, cv, cfg, swreg, ms>>

\* one turn of the for loop with the prefix stored before the name is moved
mangle_prefix_first(buf, ndata, i, pfx) ==
    LET at == ndata + i * ETH_GSTRING_LEN
    IN memmove(WriteAt(buf, at, pfx), at + PfxLen, at, ETH_GSTRING_LEN - PfxLen)

\* one turn of the for loop: memmove(ndata + (i * len + sizeof(pfx)),
\* ndata + i * len, len - sizeof(pfx)); memcpy(ndata + i * len, pfx, sizeof(pfx))
mangle(buf, ndata, i, pfx) ==
    LET at == ndata + i * ETH_GSTRING_LEN
    IN WriteAt(memmove(buf, at + PfxLen, at, ETH_GSTRING_LEN - PfxLen), at, pfx)

\* for (i = 0; i < count; i++)
RECURSIVE MangleAll(_, _, _, _, _)
MangleAll(buf, ndata, i, count, pfx) ==
    IF i >= count THEN buf
    ELSE MangleAll(mangle(buf, ndata, i, pfx), ndata, i + 1, count, pfx)

\* the master's part of dsa_master_get_strings: mcount and what the master
\* or its PHY wrote at data
strings_master ==
    IF cfg.sset = "ETH_SS_PHY_STATS" /\ cfg.phydev /\ ~cfg.m_phy_stats
    THEN IF phy_ethtool_get_sset_count < 0
         THEN [mcount |-> 0, wrote |-> <<>>]
         ELSE [mcount |-> phy_ethtool_get_sset_count,
               wrote |-> Flatten(PhyStrings(phy_ethtool_get_sset_count))]
    ELSE IF cfg.m_sset /\ cfg.m_strings
         THEN IF ops_get_sset_count < 0
              THEN [mcount |-> 0, wrote |-> <<>>]
              ELSE [mcount |-> ops_get_sset_count,
                    wrote |-> Flatten(MasterStrings(ops_get_sset_count))]
         ELSE [mcount |-> 0, wrote |-> <<>>]

\* the switch's names go to ndata = data + mcount * len and are then prefixed;
\* count = ds->ops->get_sset_count(...) is a call through a null pointer when
\* the switch driver has get_strings and no get_sset_count
dsa_master_get_strings ==
    /\ mcall.op = "stats" /\ ~mcall.stringsDone
    /\ LET m == strings_master
           data1 == WriteAt(mcall.data, 0, m.wrote)
           ndata == m.mcount * ETH_GSTRING_LEN
           data2 == WriteAt(data1, ndata, Flatten(DsStrings))
       IN mcall' = [mcall EXCEPT
                      !.stringsDone = TRUE,
                      !.stringsWritten = cfg.d_strings,
                      !.stringsAt = IF cfg.d_strings THEN m.mcount ELSE 0,
                      !.msegment = m.wrote,
                      !.oops = cfg.d_strings /\ ~cfg.d_sset,
                      !.data = IF ~cfg.d_strings THEN data1
                               ELSE IF ~cfg.d_sset THEN data2
                               ELSE MangleAll(data2, ndata, 0, ds_get_sset_count,
                                              Prefix(cfg.port))]
    /\ UNCHANGED <<sensorVars, ret, tagVars, cv, cfg, swreg, ms>>

(* ------------------- the switch tree: ioctl and pvlan ----------------- *)
\* dst->ports of a tree of two switches: the CPU port and a port 3 on the
\* switch the master is wired to (cpu_dp->ds), a port 3 and a port 1 on the
\* other switch; a port is in use or unused, and may timestamp in hardware
PortTypes == {"DSA_PORT_TYPE_USER", "DSA_PORT_TYPE_UNUSED"}
TreePorts(t, h) ==
    <<[ds |-> 0, index |-> 8, type |-> "DSA_PORT_TYPE_CPU", hwtstamp |-> h[1]],
      [ds |-> 0, index |-> 3, type |-> t[1], hwtstamp |-> h[2]],
      [ds |-> 1, index |-> 3, type |-> t[2], hwtstamp |-> h[3]],
      [ds |-> 1, index |-> 1, type |-> t[3], hwtstamp |-> h[4]]>>
TreeConfigs ==
    {[op |-> "tree", ports |-> TreePorts(t, h), cpu_ds |-> 0, ndo_eth_ioctl |-> n,
      port_get_pvlan |-> g] :
        t \in [1..3 -> PortTypes], h \in [1..4 -> BOOLEAN], n \in BOOLEAN, g \in BOOLEAN}

IoctlCmds == {"SIOCGHWTSTAMP", "SIOCSHWTSTAMP", "SIOCGMIIREG"}
\* what the master's own ndo_eth_ioctl may answer
NativeAnswers == {0, -EINVAL}
\* what a user may write to pvlan: "<index>:<hex-value>"
PvlanBufs ==
    {[tok |-> <<Tok(i), Tok(165)>>, count |-> 6] : i \in {1, 3, 8, 99}}
    \cup {[tok |-> <<Tok(3)>>, count |-> 2], [tok |-> <<JunkTok, Tok(165)>>, count |-> 6]}

IdleTreeCall == [op |-> "none", cmd |-> "none", buf |-> [tok |-> <<>>, count |-> 0],
                 ret |-> 0, forwarded |-> FALSE, native |-> 0, drv |-> <<>>]

InitTree ==
    /\ InitCommon /\ faultBudget = 0
    /\ cfg \in TreeConfigs
    /\ mcall = IdleTreeCall
    /\ cv = NoCall /\ swreg = NoCall /\ ms = NoCall

\* dsa_port_supports_hwtstamp(dp, ifr)
dsa_port_supports_hwtstamp(dp) == dp.hwtstamp

\* the ioctl handler as it would be if it denied only the set request
dsa_master_ioctl_set_only ==
    \E cmd \in IoctlCmds, native \in NativeAnswers :
        /\ cfg.op = "tree"
        /\ mcall' =
             IF cmd = "SIOCSHWTSTAMP"
                /\ \E k \in 1..Len(cfg.ports) : dsa_port_supports_hwtstamp(cfg.ports[k])
             THEN [IdleTreeCall EXCEPT !.op = "dsa_master_ioctl", !.cmd = cmd, !.ret = -EBUSY]
             ELSE IF cfg.ndo_eth_ioctl
                  THEN [IdleTreeCall EXCEPT !.op = "dsa_master_ioctl", !.cmd = cmd,
                                            !.forwarded = TRUE, !.native = native,
                                            !.ret = native]
                  ELSE [IdleTreeCall EXCEPT !.op = "dsa_master_ioctl", !.cmd = cmd,
                                            !.ret = -EOPNOTSUPP]
        /\ UNCHANGED <<sensorVars, ret, tagVars, cv, cfg, swreg, ms>>

\* dsa_master_ioctl: -EBUSY for SIOCGHWTSTAMP and SIOCSHWTSTAMP when a port of
\* the tree timestamps, else the master's ndo_eth_ioctl, else -EOPNOTSUPP
dsa_master_ioctl ==
    \E cmd \in IoctlCmds, native \in NativeAnswers :
        /\ cfg.op = "tree"
        /\ mcall' =
             IF cmd \in {"SIOCGHWTSTAMP", "SIOCSHWTSTAMP"}
                /\ \E k \in 1..Len(cfg.ports) : dsa_port_supports_hwtstamp(cfg.ports[k])
             THEN [IdleTreeCall EXCEPT !.op = "dsa_master_ioctl", !.cmd = cmd, !.ret = -EBUSY]
             ELSE IF cfg.ndo_eth_ioctl
                  THEN [IdleTreeCall EXCEPT !.op = "dsa_master_ioctl", !.cmd = cmd,
                                            !.forwarded = TRUE, !.native = native,
                                            !.ret = native]
                  ELSE [IdleTreeCall EXCEPT !.op = "dsa_master_ioctl", !.cmd = cmd,
                                            !.ret = -EOPNOTSUPP]
        /\ UNCHANGED <<sensorVars, ret, tagVars, cv, cfg, swreg, ms>>

\* the first port of dst->ports, from position k on, with the given index that
\* is not unused; 0 when there is none
RECURSIVE FindPort(_, _)
FindPort(k, index) ==
    IF k > Len(cfg.ports) THEN 0
    ELSE IF cfg.ports[k].index = index /\ cfg.ports[k].type # "DSA_PORT_TYPE_UNUSED" THEN k
    ELSE FindPort(k + 1, index)

\* pvlan_store: sscanf(buf, "%d:%hx", &index, &value), the search of the
\* tree's ports, and dp->ds->ops->port_change_pvlan(ds, index, value) with
\* ds = cpu_dp->ds
pvlan_store ==
    \E buf \in PvlanBufs :
        /\ cfg.op = "tree"
        /\ mcall' =
             IF sscanf(buf.tok, 2) # 2
             THEN [IdleTreeCall EXCEPT !.op = "pvlan_store", !.buf = buf, !.ret = -EINVAL]
             ELSE LET index == buf.tok[1].v
                      value == buf.tok[2].v % 65536
                      k == FindPort(1, index)
                  IN IF k = 0
                     THEN [IdleTreeCall EXCEPT !.op = "pvlan_store", !.buf = buf,
                                               !.ret = -EINVAL]
                     ELSE IF ~cfg.port_get_pvlan
                     THEN [IdleTreeCall EXCEPT !.op = "pvlan_store", !.buf = buf,
                                               !.ret = -EOPNOTSUPP]
                     ELSE [IdleTreeCall EXCEPT
                             !.op = "pvlan_store", !.buf = buf, !.ret = buf.count,
                             !.drv = <<[cmd |-> "port_change_pvlan", ds |-> cfg.cpu_ds,
                                        port |-> index, value |-> value]>>]
        /\ UNCHANGED <<sensorVars, ret, tagVars, cv, cfg, swreg, ms>>

(* ----------------------- master setup and teardown -------------------- *)
ETH_DATA_LEN == 1500
\* dsa_tag_protocol_overhead(tag_ops) of the tagger in use at setup
Overheads == {0, 4}
\* which taggers set promisc_on_master, and the overhead of the first tagger
LifeConfigs ==
    {[op |-> "life", promisc_on_master |-> p, overhead |-> o] :
        p \in [Taggers -> BOOLEAN], o \in Overheads}

\* the master net_device and cpu_dp->orig_ethtool_ops, with the steps setup
\* and teardown have taken so far
IdleLife == [op |-> "life", pc |-> "down", mtu |-> ETH_DATA_LEN, promiscuity |-> 0,
             ethtool_ops |-> "orig", orig_ethtool_ops |-> "null",
             netdev_ops |-> "null", group |-> FALSE, dsa_ptr |-> "null",
             setup |-> <<>>, teardown |-> <<>>, ret |-> 0]

InitLife ==
    /\ InitCommon /\ faultBudget = 0
    /\ cfg \in LifeConfigs
    /\ ms = IdleLife
    /\ cv = NoCall /\ swreg = NoCall /\ mcall = NoCall

\* the step taken is remembered in the order of the calls
Did(m, log, step) == [m EXCEPT ![log] = Append(@, step)]

\* dev_set_mtu(dev, mtu): the device may refuse
dev_set_mtu(m, mtu, ok) == IF ok THEN [m EXCEPT !.mtu = mtu] ELSE m

\* dsa_master_set_promiscuity(dev, inc): by dev->dsa_ptr->tag_ops as it is now
dsa_master_set_promiscuity(m, inc) ==
    IF ~cfg.promisc_on_master[tag_ops] THEN m
    ELSE [m EXCEPT !.promiscuity = @ + inc]

\* dsa_master_ethtool_setup(dev), when devm_kzalloc succeeds
dsa_master_ethtool_setup(m) ==
    [m EXCEPT !.orig_ethtool_ops = m.ethtool_ops, !.ethtool_ops = "dsa"]

\* dsa_master_ethtool_teardown(dev)
dsa_master_ethtool_teardown(m) ==
    [m EXCEPT !.ethtool_ops = m.orig_ethtool_ops, !.orig_ethtool_ops = "null"]

\* dsa_netdev_ops_set(dev, ops)
dsa_netdev_ops_set(m, ops) == [m EXCEPT !.netdev_ops = ops]

\* dsa_master_reset_mtu(dev): a refusal is only logged
dsa_master_reset_mtu(m, ok) == dev_set_mtu(m, ETH_DATA_LEN, ok)

\* dsa_master_setup(dev, cpu_dp), with its two error exits
dsa_master_setup ==
    \E mtu_ok \in BOOLEAN, kzalloc_ok \in BOOLEAN, group_ok \in BOOLEAN :
        /\ cfg.op = "life" /\ ms.pc = "down"
        /\ LET m1 == Did(dev_set_mtu(ms, ETH_DATA_LEN + cfg.overhead, mtu_ok),
                         "setup", "mtu")
               m2 == [m1 EXCEPT !.dsa_ptr = "cpu_dp"]
               m3 == Did(dsa_master_set_promiscuity(m2, 1), "setup", "promiscuity")
               m4 == Did(dsa_master_ethtool_setup(m3), "setup", "ethtool_ops")
               m5 == Did(dsa_netdev_ops_set(m4, "dsa_netdev_ops"), "setup", "netdev_ops")
               m6 == Did([m5 EXCEPT !.group = TRUE], "setup", "group")
               \* out_err_ndo_teardown
               e1 == dsa_master_ethtool_teardown(dsa_netdev_ops_set(m5, "null"))
           IN ms' = IF ~kzalloc_ok
                    THEN [dsa_master_set_promiscuity(m3, -1) EXCEPT
                            !.pc = "failed", !.ret = -ENOMEM]
                    ELSE IF ~group_ok
                    THEN [dsa_master_set_promiscuity(e1, -1) EXCEPT
                            !.pc = "failed", !.ret = -ENOMEM]
                    ELSE [m6 EXCEPT !.pc = "up", !.ret = 0]
        /\ UNCHANGED <<sensorVars, ret, tagVars, cv, cfg, swreg, mcall>>

\* teardown as it would be if promiscuity were dropped before the MTU is reset
dsa_master_teardown_promisc_first ==
    \E mtu_ok \in BOOLEAN :
        /\ cfg.op = "life" /\ ms.pc = "up"
        /\ \A t \in Threads : tg[t].pc = "idle"
        /\ LET m1 == Did([ms EXCEPT !.group = FALSE], "teardown", "group")
               m2 == Did(dsa_netdev_ops_set(m1, "null"), "teardown", "netdev_ops")
               m3 == Did(dsa_master_ethtool_teardown(m2), "teardown", "ethtool_ops")
               m4 == Did(dsa_master_set_promiscuity(m3, -1), "teardown", "promiscuity")
               m5 == Did(dsa_master_reset_mtu(m4, mtu_ok), "teardown", "mtu")
           IN ms' = [m5 EXCEPT !.dsa_ptr = "null", !.pc = "torn_down"]
        /\ UNCHANGED <<sensorVars, ret, tagVars, cv, cfg, swreg, mcall>>

\* dsa_master_teardown(dev); sysfs_remove_group waits for the attribute
\* writes in progress
dsa_master_teardown ==
    \E mtu_ok \in BOOLEAN :
        /\ cfg.op = "life" /\ ms.pc = "up"
        /\ \A t \in Threads : tg[t].pc = "idle"
        /\ LET m1 == Did([ms EXCEPT !.group = FALSE], "teardown", "group")
               m2 == Did(dsa_netdev_ops_set(m1, "null"), "teardown", "netdev_ops")
               m3 == Did(dsa_master_ethtool_teardown(m2), "teardown", "ethtool_ops")
               m4 == Did(dsa_master_reset_mtu(m3, mtu_ok), "teardown", "mtu")
               m5 == Did(dsa_master_set_promiscuity(m4, -1), "teardown", "promiscuity")
           IN ms' = [m5 EXCEPT !.dsa_ptr = "null", !.pc = "torn_down"]
        /\ UNCHANGED <<sensorVars, ret, tagVars, cv, cfg, swreg, mcall>>

(* ------------------------------- time --------------------------------- *)
\* the timer interrupt advances jiffies
Tick ==
    /\ jiffies < MaxJiffies
    /\ jiffies' = jiffies + 1
    /\ UNCHANGED <<arbVars, busVars, devVars, th, ret, tagVars, masterVars>>

(* ------------------------- the sensor-bus system ---------------------- *)
\* the steps of mcp9902_update_device, of spi_unlock and of the sysfs reads
RefreshStep(t) ==
    \/ ud_mutex_lock(t) \/ ud_check(t) \/ ud_spi_lock(t) \/ i2c_transfer_start(t)
    \/ ud_read(t) \/ ud_status(t)
    \/ spi_unlock_usleep(t) \/ spi_unlock_msleep(t) \/ spi_unlock_mutex_unlock(t)
    \/ ud_stamp(t) \/ ud_mutex_unlock(t) \/ ts_frac(t) \/ ts_val(t) \/ al_read(t)

StoreStep(t) ==
    \/ st_mutex_lock(t) \/ st_set(t) \/ st_spi_lock(t) \/ st_write(t) \/ st_mutex_unlock(t)

ProbeStep(t) ==
    \/ dt_spi_lock(t) \/ dt_read_man(t) \/ dt_read_chip(t) \/ dt_verify(t)
    \/ ic_spi_lock(t) \/ ic_write_rate(t) \/ ic_write_cfg(t) \/ pr_register(t)

ClockShortStep(t) == sm_parse(t) \/ sm_lock(t) \/ sm_set(t) \/ sm_force_unlock(t)

\* a step of thread t inside a handler
Step(t) == RefreshStep(t) \/ StoreStep(t) \/ ProbeStep(t) \/ ClockShortStep(t)

\* thread t calls a handler
Call(t) ==
    \/ temp_show(t) \/ alarms_show(t) \/ alarm_show(t) \/ temp_store(t)
    \/ mcp9902_detect(t) \/ mcp9902_probe(t) \/ spi_mutex_store(t)

\* every client of the clock mutex, within one jiffy
Next == \E t \in Threads : Call(t) \/ Step(t)

Spec == Init /\ [][Next]_vars

\* one thread polls the sensor while every thread may write a threshold,
\* write the clock-short flag, or detect and probe a chip
NextLive ==
    \E t \in Threads :
        \/ (t = 1 /\ (temp_show(t) \/ alarms_show(t)))
        \/ temp_store(t) \/ mcp9902_detect(t) \/ mcp9902_probe(t) \/ spi_mutex_store(t)
        \/ Step(t)

\* the scheduler is fair: a thread inside a handler keeps running, and a
\* thread waiting for a mutex that is released again and again gets it at
\* last (the kernel's mutexes hand over to the longest waiter)
Fairness == \A t \in Threads : SF_vars(Step(t))

SpecLive == Init /\ [][NextLive]_vars /\ Fairness

\* the sysfs readers and writers of the sensors, over time
NextCache ==
    \/ Tick
    \/ \E t \in Threads :
          \/ temp_show(t) \/ alarms_show(t) \/ alarm_show(t) \/ temp_store(t)
          \/ RefreshStep(t) \/ StoreStep(t)

SpecCache == Init /\ [][NextCache]_vars

\* the sysfs readers and writers of the sensors on a bus that may fail
NextFault ==
    \E t \in Threads :
        \/ temp_show(t) \/ alarms_show(t) \/ temp_store(t)
        \/ RefreshStep(t) \/ StoreStep(t)

SpecFault == InitFault /\ [][NextFault]_vars

\* the writers of tagging_cpu
NextTag ==
    \E t \in Threads :
        \/ tagging_cpu_store(t) \/ tc_find(t) \/ dsa_tree_change_tag_proto(t)
        \/ tc_put_new(t) \/ tc_put_old(t)

SpecTag == Init /\ [][NextTag]_vars

\* a threshold is written and read back
NextConv == cv_temp_store \/ cv_temp_show

SpecConv == InitConv /\ [][NextConv]_vars

\* the users of the raw-register port
NextDebug == rdreg_store \/ rdreg_show \/ wrreg_store

SpecDebug == InitDebug /\ [][NextDebug]_vars

\* ethtool asks the master for its statistics
NextStats ==
    \/ dsa_master_get_sset_count \/ dsa_master_get_ethtool_stats
    \/ dsa_master_get_ethtool_phy_stats \/ dsa_master_get_strings

SpecStats == InitStats /\ [][NextStats]_vars

\* requests that look at the switch tree
NextTree == dsa_master_ioctl \/ pvlan_store

SpecTree == InitTree /\ [][NextTree]_vars

\* the life of a master: setup, writes to tagging_cpu while the attribute
\* group is registered, teardown
NextLife ==
    \/ dsa_master_setup
    \/ dsa_master_teardown
    \/ \E t \in Threads :
          \/ ms.group /\ tagging_cpu_store(t)
          \/ tc_find(t) \/ dsa_tree_change_tag_proto(t)
          \/ tc_put_new(t) \/ tc_put_old(t)

SpecLife == InitLife /\ [][NextLife]_vars

\* reads and writes of tagging_imp
NextImp == tagging_imp_show \/ tagging_imp_store

SpecImp == InitImp /\ [][NextImp]_vars

(* ====================================================================== *)
(*                 Properties of the clock mutex (bus arbiter)            *)
(* ====================================================================== *)
\* positions between a thread's acquisition of the clock mutex and its release
HoldPcs == {"ud_read", "ud_status", "st_write", "dt_read_man", "dt_read_chip",
            "ic_write_rate", "ic_write_cfg", "su_usleep", "su_msleep", "su_unlock",
            "sm_set", "sm_force_unlock"}

\* positions at which a thread is about to acquire the clock mutex
SpiLockPcs == {"ud_spi_lock", "st_spi_lock", "dt_spi_lock", "ic_spi_lock", "sm_lock"}

\* positions at which a thread is about to acquire a device's update lock
UpdateLockPcs == {"ud_mutex_lock", "st_mutex_lock"}

\* positions between the acquisition of a device's update lock and its release
UpdateHeldPcs == {"ud_check", "ud_spi_lock", "ud_read", "ud_status", "ud_stamp",
                  "ud_mutex_unlock", "st_set", "st_spi_lock", "st_write", "st_mutex_unlock",
                  "su_usleep", "su_msleep", "su_unlock"}

DeviceOps == RefreshOps \cup {"temp_store"}

InHold(t) == th[t].pc \in HoldPcs

\* C1: at every instant at most one thread is inside a hold of the clock
\* mutex, whoever acquired it (refresh, threshold write, detect, init,
\* clock-short write), and every thread inside a hold is the mutex's owner:
\* no release, forced or not, ever clears the hold of another thread.
C1_OneHolder ==
    /\ Cardinality({t \in Threads : InHold(t)}) <= 1
    /\ \A t \in Threads : InHold(t) => datum_b53_spi_mutex = t

\* a clock-short write has force-released the mutex earlier and now one
\* thread is inside a hold while another waits to acquire
C1_Witness ==
    \E t, u \in Threads :
        /\ InHold(t) /\ th[t].op # "spi_mutex_store"
        /\ th[u].pc \in SpiLockPcs
        /\ datum_spi2_i2c3_clock_short

\* C2: every bus transaction of the sensor driver is on the wire only while
\* its thread owns the clock mutex, so at most one transaction is on the
\* wire at any time.
C2_TransactionsInsideHold ==
    /\ \A t \in bus : datum_b53_spi_mutex = t
    /\ Cardinality(bus) <= 1

\* a threshold write is on the wire while another thread waits for the mutex
C2_Witness ==
    \E t, u \in Threads :
        /\ t \in bus /\ th[t].pc = "st_write"
        /\ th[u].pc \in SpiLockPcs

\* the last transaction of the hold is done, the settle delay is not
SettlePending(t) == th[t].pc \in {"su_usleep", "su_msleep"}

\* C3: no thread acquires the clock mutex while another thread is between
\* the last bus transaction of its hold and the end of its settle delay.
C3_SettleBeforeNextAcquire ==
    [][\A u \in Threads :
          (datum_b53_spi_mutex' = u /\ datum_b53_spi_mutex # u)
              => \A t \in Threads \ {u} : ~SettlePending(t)]_vars

\* a thread sleeps its settle delay while another waits to acquire
C3_Witness ==
    \E t, u \in Threads : th[t].pc = "su_msleep" /\ th[u].pc \in SpiLockPcs

\* C4: the force release is called by the clock-short write only, never by
\* refresh, threshold write, detect or init.
C4_ForceReleaseOnlyFromClockShort == ~clientForced

\* a clock-short write has completed, force release included, and a bus
\* client has released the mutex after it
C4_Witness ==
    /\ datum_spi2_i2c3_clock_short
    /\ \A t \in Threads : th[t].op # "spi_mutex_store"
    /\ \E t \in Threads : th[t].pc \in {"st_mutex_unlock", "dt_verify", "pr_register", "ud_stamp"}

\* C5: a thread inside a refresh or a threshold write owns its device's
\* update lock from before it acquires the clock mutex until after it has
\* released it; no thread waits for an update lock while it owns the clock
\* mutex; and whenever some handler is running, some running handler can
\* take a step (no deadlock).
C5_LockOrderNoDeadlock ==
    /\ \A t \in Threads :
          (th[t].op \in DeviceOps /\ th[t].pc \in UpdateHeldPcs)
              => data[th[t].dev].update_lock = t
    /\ \A t \in Threads : th[t].pc \in UpdateLockPcs => datum_b53_spi_mutex # t
    /\ (\E t \in Threads : th[t].pc # "idle") => \E t \in Threads : ENABLED Step(t)

\* a thread owns update lock and clock mutex, another waits for the update lock
C5_Witness ==
    \E t, u \in Threads :
        /\ datum_b53_spi_mutex = t /\ data[th[t].dev].update_lock = t
        /\ th[u].pc \in UpdateLockPcs /\ th[u].dev = th[t].dev

\* where a thread is while it runs the for (j ...) loop of mcp9902_update_device
RefreshLoopPcs == {"ud_spi_lock", "ud_read", "ud_status", "su_usleep", "su_msleep",
                   "su_unlock", "ud_stamp"}

InRefresh(t) == th[t].op \in RefreshOps /\ th[t].pc \in RefreshLoopPcs

\* the cache of device d is still fresh: valid and at most one jiffy old
InWindow(d) == data[d].valid /\ jiffies <= data[d].last_updated + 1

\* thread t found the cache fresh and is about to leave mcp9902_update_device
Skipped(t) == th[t].op \in RefreshOps /\ th[t].pc = "ud_mutex_unlock" /\ th[t].j = 0

\* C6 as the spec states it: the refreshes of one staleness window perform
\* exactly one bus-read burst of the register set in total, so no refresh
\* ever completes a second burst.
C6_ExactlyOneBurst ==
    \A t \in Threads : th[t].op \in RefreshOps => th[t].j <= 1

\* C6 amended: at most one thread per device is inside the refresh loop; a
\* refresh that executes performs exactly NumBursts bursts before it stamps
\* the cache; a caller that tests the cache while it is valid and at most one
\* jiffy old performs no bus read; and such a caller finds a valid cache whose
\* every register comes from the last burst.
C6_OneRefreshPerWindow ==
    /\ [](/\ \A t, u \in Threads :
               (InRefresh(t) /\ InRefresh(u) /\ th[t].dev = th[u].dev) => t = u
          /\ \A t \in Threads :
               th[t].op \in RefreshOps =>
                  /\ th[t].j <= NumBursts
                  /\ th[t].pc = "ud_stamp" => th[t].j = NumBursts
                  /\ th[t].pc \in {"ud_mutex_unlock", "ts_frac", "ts_val", "al_read"}
                        => th[t].j \in {0, NumBursts}
          /\ \A t \in Threads :
               Skipped(t) => /\ data[th[t].dev].valid
                             /\ \A x \in TempRegs : age[th[t].dev][x] = 0)
    /\ [][\A t \in Threads :
             (th[t].pc = "ud_check" /\ th'[t].pc # "ud_check" /\ InWindow(th[t].dev))
                 => Skipped(t)']_vars

\* a caller left the refresh without a bus read at the last jiffy of the
\* window that another caller's refresh opened
C6_Witness ==
    \E t \in Threads :
        /\ Skipped(t)
        /\ jiffies = data[th[t].dev].last_updated + 1
        /\ \E u \in Threads : u # t /\ th[u].op \in RefreshOps /\ th[u].j = NumBursts

\* C7: when temp_show combines the integer byte with the fraction byte it read
\* before, both bytes come from the same register-read burst.
C7_NoTornRead ==
    [][\A t \in Threads :
          (th[t].pc = "ts_val" /\ th'[t].pc = "idle" /\ th[t].fracAge >= 0)
              => age[th[t].dev][th[t].index] = th[t].fracAge]_vars

\* thread t returns from tagging_cpu_store on the failure path
FailReturn(t) == tg[t].pc = "tc_put_new" /\ tg'[t].pc = "idle"

\* C8: when the tree-wide change fails, tagging_cpu_store returns the error,
\* the call as a whole has changed no reference count (the reference taken on
\* the new tagger is released), and, no other writer having run meanwhile,
\* the active tagger and its reference count are what they were at the call.
C8_FailedChangeIsAtomic ==
    [][\A t \in Threads :
          FailReturn(t) =>
             /\ ret'[t] < 0
             /\ \A p \in Taggers : tg[t].delta[p] + (refcount'[p] - refcount[p]) = 0
             /\ tag_ops' = tag_ops
             /\ ~tg[t].interfered =>
                   /\ tag_ops' = tg[t].old_tag_ops
                   /\ refcount'[tag_ops'] = tg[t].old_refs]_vars

\* a change has failed with -EBUSY and returned; the active tagger holds the
\* only reference
C8_Witness ==
    \E t \in Threads :
        /\ tg[t].pc = "idle" /\ ret[t] = -EBUSY
        /\ refcount[tag_ops] = 1
        /\ \A p \in Taggers \ {tag_ops} : refcount[p] = 0

\* C9: whenever no tagging_cpu_store call is in flight, the active tagger's
\* reference count is at least 1, no other tagger keeps a reference, and no
\* count is below zero.
C9_OneProtocolHoldsReference ==
    (\A t \in Threads : tg[t].pc = "idle") =>
        /\ refcount[tag_ops] >= 1
        /\ \A p \in Taggers \ {tag_ops} : refcount[p] = 0
        /\ \A p \in Taggers : refcount[p] >= 0

\* C10: a refresh or a threshold write during which a bus transaction failed
\* returns an error to its caller.
C10_BusFailureReported ==
    [][\A t \in Threads :
          (th[t].pc # "idle" /\ th'[t].pc = "idle" /\ th[t].op \in DeviceOps
           /\ th[t].busFailed)
              => ret'[t] < 0]_vars

\* C11: a threshold V that is a multiple of 1000 milli-degrees, written with
\* temp_store and read back with temp_show, reads as V.
C11_ThresholdRoundTrip ==
    (cv.op = "threshold" /\ cv.pc = "shown") => cv.out = cv.V

\* thread t is at the input checks of spi_mutex_store with an input that is
\* not one character plus terminator, or not 0 or 1
ClockShortMalformed(t) ==
    /\ th[t].pc = "sm_parse"
    /\ th[t].count # 2 \/ th[t].index # 1 \/ th[t].val \notin {0, 1}

\* C13: a clock-short write with such an input returns -EINVAL and changes
\* neither the short-mode flag nor the clock mutex, nor anything else.
C13_MalformedClockShortRejected ==
    [][\A t \in Threads :
          (ClockShortMalformed(t) /\ th'[t].pc # "sm_parse")
              => /\ ret'[t] = -EINVAL
                 /\ th'[t].pc = "idle"
                 /\ UNCHANGED <<arbVars, busVars, devVars>>]_vars

\* a malformed clock-short write is at its input checks while short mode is on
C13_Witness ==
    \E t \in Threads : ClockShortMalformed(t) /\ datum_spi2_i2c3_clock_short

ValidWidths == {1, 2, 4, 6, 8}

\* a write to rdreg (n = 3) or to wrreg (n = 4) that the port must refuse: not
\* exactly n tokens, a token that is no number, or a width outside ValidWidths
Malformed(buf, n) ==
    \/ Len(buf.tok) # n
    \/ \E k \in 1..Len(buf.tok) : ~buf.tok[k].ok
    \/ buf.tok[3].v \notin ValidWidths

\* C12: a prepare or a raw write with a wrong token count or a width outside
\* {1,2,4,6,8} returns -EINVAL, sends no command to the switch driver and
\* leaves the pending address and the switch as they were.
C12_MalformedRawAccessRejected ==
    [][((mcall'.op = "rdreg_store" /\ Malformed(mcall'.buf, 3))
        \/ (mcall'.op = "wrreg_store" /\ Malformed(mcall'.buf, 4)))
          => (mcall'.ret = -EINVAL /\ mcall'.drv = <<>> /\ swreg' = swreg)]_vars

\* the digits a read of the given width must return
HexWidth(size) == IF size \in {6, 8} THEN 16 ELSE 2 * size

\* C14: a read that follows a prepare with a valid width returns the value
\* in exactly 2 * width hexadecimal digits (16 for the widths 6 and 8).
C14_ReadHasFixedWidth ==
    (mcall.op = "rdreg_show" /\ mcall.ret > 0)
        => Len(mcall.out) = HexWidth(mcall.drv[1].size)

\* the n-th string of the switch-port segment as get_strings left it
SwitchString(n) ==
    SubSeq(mcall.data, (mcall.stringsAt + n) * ETH_GSTRING_LEN + 1,
           (mcall.stringsAt + n + 1) * ETH_GSTRING_LEN)

\* get_strings has written and prefixed the switch port's names
StringsPrefixed == mcall.op = "stats" /\ mcall.stringsWritten /\ ~mcall.oops

C16_OneLayout ==
    (mcall.op = "stats" /\ mcall.counted) =>
        /\ (mcall.statsDone /\ mcall.statsWritten) => mcall.statsAt = mcall.mcount
        /\ (mcall.stringsDone /\ mcall.stringsWritten) => mcall.stringsAt = mcall.mcount

\* some port of the tree advertises hardware timestamping
TreeTimestamps == \E k \in 1..Len(cfg.ports) : cfg.ports[k].hwtstamp

\* C17: a timestamping request on a tree with a timestamping port returns
\* -EBUSY without reaching the master's handler; every other request returns
\* what the master's handler returns, or -EOPNOTSUPP when it has none.
C17_IoctlIntercept ==
    mcall.op = "dsa_master_ioctl" =>
        IF mcall.cmd \in {"SIOCGHWTSTAMP", "SIOCSHWTSTAMP"} /\ TreeTimestamps
        THEN mcall.ret = -EBUSY /\ ~mcall.forwarded
        ELSE IF cfg.ndo_eth_ioctl
             THEN mcall.forwarded /\ mcall.ret = mcall.native
             ELSE ~mcall.forwarded /\ mcall.ret = -EOPNOTSUPP

\* a request to read the timestamping configuration was refused although the
\* master has a handler
C17_Witness ==
    /\ mcall.op = "dsa_master_ioctl" /\ mcall.cmd = "SIOCGHWTSTAMP"
    /\ mcall.ret = -EBUSY /\ cfg.ndo_eth_ioctl

\* the ports of the tree with the given index that are not unused
PortsWithIndex(index) ==
    {k \in 1..Len(cfg.ports) :
        cfg.ports[k].index = index /\ cfg.ports[k].type # "DSA_PORT_TYPE_UNUSED"}

\* C20: a well-formed pvlan write naming a port in use calls the setter once,
\* on that port's own switch, with the port's index and the parsed value, and
\* returns count; one naming no port returns -EINVAL and calls no setter.
C20_PvlanSetterOnOwnSwitch ==
    (mcall.op = "pvlan_store" /\ Len(mcall.buf.tok) = 2
     /\ mcall.buf.tok[1].ok /\ mcall.buf.tok[2].ok /\ cfg.port_get_pvlan) =>
        LET index == mcall.buf.tok[1].v
            value == mcall.buf.tok[2].v
        IN IF PortsWithIndex(index) # {}
           THEN /\ mcall.ret = mcall.buf.count
                /\ \E k \in PortsWithIndex(index) :
                      mcall.drv = <<[cmd |-> "port_change_pvlan", ds |-> cfg.ports[k].ds,
                                     port |-> index, value |-> value]>>
           ELSE mcall.ret = -EINVAL /\ mcall.drv = <<>>

\* C18 as stated: whatever tag-protocol changes happened in between, teardown
\* after a successful setup restores the original ethtool ops and the default
\* MTU, leaves the net promiscuity adjustment at zero, removes the attribute
\* group and clears dsa_ptr.
C18_TeardownUndoesSetup ==
    (cfg.op = "life" /\ ms.pc = "torn_down") =>
        /\ ms.ethtool_ops = "orig"
        /\ ms.mtu = ETH_DATA_LEN
        /\ ms.promiscuity = 0
        /\ ~ms.group
        /\ ms.dsa_ptr = "null"

RECURSIVE Reverse(_)
Reverse(q) == IF q = <<>> THEN <<>> ELSE Append(Reverse(Tail(q)), Head(q))

\* C19 as stated: the teardown steps are the setup steps in exactly the
\* reverse order.
C19_TeardownReversesSetup ==
    (cfg.op = "life" /\ ms.pc = "torn_down") => ms.teardown = Reverse(ms.setup)

\* C19: teardown always takes all five steps: it removes the attribute group,
\* the ioctl ops and the ethtool ops in the reverse of the order in which setup
\* installed them, and then resets the MTU before it drops promiscuity, the
\* two steps setup took first, in setup's own order.
C19_TeardownOrder ==
    (cfg.op = "life" /\ ms.pc = "torn_down") =>
        /\ ms.setup = <<"mtu", "promiscuity", "ethtool_ops", "netdev_ops", "group">>
        /\ ms.teardown = <<"group", "netdev_ops", "ethtool_ops", "mtu", "promiscuity">>

\* a master was torn down after the tagger had been changed
C19_Witness ==
    /\ cfg.op = "life" /\ ms.pc = "torn_down" /\ Len(ms.teardown) = 5
    /\ tag_ops # "brcm"

\* what mcp9902_update_device and temp_store keep of a device
Snapshot(d) == <<data[d].temp, data[d].alarms, data[d].last_updated, data[d].valid>>

\* C21: whenever a cached register value, the alarms byte, the timestamp or
\* the valid flag of a device changes, the thread that takes the step holds
\* that device's update lock before and after the step.
C21_SnapshotWrittenUnderLock ==
    [][\A d \in Devices :
          Snapshot(d)' # Snapshot(d) =>
              \E t \in Threads :
                  /\ th'[t] # th[t] /\ th[t].dev = d
                  /\ data[d].update_lock = t /\ data'[d].update_lock = t]_vars

\* a threshold write and a refresh have both changed the snapshot, and the
\* writer of the threshold still holds the update lock
C21_Witness ==
    \E t \in Threads :
        /\ th[t].op = "temp_store" /\ th[t].pc = "st_spi_lock"
        /\ data[th[t].dev].update_lock = t
        /\ data[th[t].dev].temp[th[t].index] = ToU8(temp_to_reg(th[t].val))
        /\ data[th[t].dev].valid

\* C22 as stated: a read or a write of tagging_imp leaves every tagger's
\* reference count and the tree's active protocol as they were.
C22_ImpKeepsReferences ==
    [][cfg.op = "imp" => (refcount' = refcount /\ tag_ops' = tag_ops)]_vars

\* C23 as stated: a failed dsa_master_setup leaves the master as it was: the
\* original ethtool ops, no ioctl ops, no net promiscuity adjustment, the MTU
\* without tag overhead, and no pointer to the switch port.
C23_FailedSetupLeavesNoTrace ==
    (cfg.op = "life" /\ ms.pc = "failed") =>
        /\ ms.ethtool_ops = "orig"
        /\ ms.netdev_ops = "null"
        /\ ms.promiscuity = 0
        /\ ms.mtu = ETH_DATA_LEN
        /\ ms.dsa_ptr = "null"

\* C24: the clock-short flag changes only in a step of the spi_mutex_store
\* thread that holds the arbiter, so no other thread is in a bus transaction
\* or a settle delay at that moment; and when a valid write returns, the flag
\* has the written value and the writer has let go of the arbiter.
C24_ClockShortSetUnderArbiter ==
    [][/\ datum_spi2_i2c3_clock_short' # datum_spi2_i2c3_clock_short =>
            \E t \in Threads :
                /\ th[t].op = "spi_mutex_store" /\ th'[t] # th[t]
                /\ datum_b53_spi_mutex = t /\ datum_b53_spi_mutex' = t
                /\ \A u \in Threads \ {t} : ~InHold(u) /\ ~SettlePending(u)
       /\ \A t \in Threads :
            (th[t].pc = "sm_force_unlock" /\ th'[t].pc = "idle") =>
                /\ datum_spi2_i2c3_clock_short' = (th[t].val # 0)
                /\ datum_b53_spi_mutex' # t
                /\ ret'[t] = th[t].count]_vars

\* a writer has set the flag and still holds the arbiter while another thread
\* waits to acquire it
C24_Witness ==
    \E t \in Threads, u \in Threads :
        /\ th[t].op = "spi_mutex_store" /\ th[t].pc = "sm_force_unlock"
        /\ datum_spi2_i2c3_clock_short /\ datum_b53_spi_mutex = t
        /\ u # t /\ th[u].pc \in SpiLockPcs

\* C25: a thread that is back from a handler holds neither the clock mutex
\* nor an update lock; a thread waiting for the clock mutex or an update lock
\* moves on only as the holder of that lock; and under fair scheduling every
\* handler that was started returns, so every waiting thread does become the
\* holder.
C25_LocksReleasedAndProgress ==
    /\ [](\A t \in Threads :
            th[t].pc = "idle" =>
                /\ datum_b53_spi_mutex # t
                /\ \A d \in Devices : data[d].update_lock # t)
    /\ [][\A t \in Threads :
            /\ (th[t].pc \in SpiLockPcs /\ th'[t].pc # th[t].pc) =>
                    datum_b53_spi_mutex' = t
            /\ (th[t].pc \in UpdateLockPcs /\ th'[t].pc # th[t].pc) =>
                    data'[th[t].dev].update_lock = t]_vars
    /\ \A t \in Threads : (th[t].pc # "idle") ~> (th[t].pc = "idle")

\* a thread waits for the clock mutex while another one, in a later burst of
\* its refresh, holds it
C25_Witness ==
    \E t \in Threads, u \in Threads :
        /\ t # u /\ th[t].pc \in SpiLockPcs
        /\ datum_b53_spi_mutex = u /\ th[u].op \in RefreshOps /\ th[u].j > 0

====
